---- MODULE Spec2Model ----
(***************************************************************************)
(* A model of tm_mapselect's ServerController (src/tm_mapselect/main.py):  *)
(* the connection guard, the map metadata cache with its sqlite store, the *)
(* connect() pull and the background update thread.                        *)
(*                                                                         *)
(* Threads are the background update thread BG and the caller threads of   *)
(* Callers (the front-end's request threads).  Every thread has a program  *)
(* counter pc[t] = [f |-> function, s |-> step], a stack stk[t] of return  *)
(* labels, the locals loc[t] of the functions it is in, and the value      *)
(* rv[t] the last function returned.  An exception unwinds the whole       *)
(* stack: a caller thread gets it as the outcome of its operation, the     *)
(* background thread ends with it.                                         *)
(***************************************************************************)
EXTENDS Integers, Sequences, FiniteSets, TLC

VARIABLES
    connalive,  \* remote.connalive
    remote,     \* the dedicated server's configuration: [cur, max, tl]
    rMaps,      \* the dedicated server's map list (UIds, in server order)
    catalog,    \* what trackmania.exchange holds for each UId
    state,      \* ServerController.state
    cache,      \* ServerController._uid_to_id_cache
    dbOpen,     \* whether ServerController._db exists
    db,         \* the rows of table map_uid_to_id
    event,      \* ServerController.update_event
    started,    \* whether update_thread.start() was called
    pc, stk, loc, rv,
    result,     \* the outcome of the last operation a thread ended
    lookups,    \* GET requests to trackmania.exchange that were answered with a
                \* result, per UId
    signals,    \* update_event.set() calls made while the thread was in the
                \* wait() it last left (kept until its next pass has begun)
    stamp       \* the pull each field of state comes from: 1 is the pass of
                \* update_state under way, 0 a pull made before it

vars == <<connalive, remote, rMaps, catalog, state, cache, dbOpen, db, event,
          started, pc, stk, loc, rv, result, lookups, signals, stamp>>

(***************************************************************************)
(* Bounds and inputs                                                       *)
(***************************************************************************)
MaxLookups == 2                   \* the counts of lookups[u] saturate here
MaxSignals == 2                   \* the counts of signals saturate here
Callers == {"c1"}
BG == "bg"
Threads == Callers \cup {BG}
\* the maps there are, in the order the largest server holds them, and the
\* OnlineMapId trackmania.exchange has for each
UIdSeq == <<"u1", "u2", "u3", "u4", "u5", "u6", "u7", "u8", "u9",
            "u10", "u11", "u12", "u13", "u14", "u15", "u16", "u17", "u18",
            "u19", "u20", "u21", "u22", "u23", "u24", "u25", "u26", "u27",
            "u28", "u29", "u30", "u31", "u32", "u33", "u34", "u35", "u36",
            "u37", "u38", "u39", "u40", "u41">>
OnlineIds == <<"o1", "o2", "o3", "o4", "o5", "o6", "o7", "o8", "o9",
               "o10", "o11", "o12", "o13", "o14", "o15", "o16", "o17", "o18",
               "o19", "o20", "o21", "o22", "o23", "o24", "o25", "o26", "o27",
               "o28", "o29", "o30", "o31", "o32", "o33", "o34", "o35", "o36",
               "o37", "o38", "o39", "o40", "o41">>
UIDs == {UIdSeq[k] : k \in DOMAIN UIdSeq}
CallerUIDs == {"u1", "u2"}        \* the UIds a caller asks get_tmx_ids for
MaxPlayersVals == {32}
TimeLimits == {120}
Indexes == {0}
ServerName == "srv"
RawPlayers == <<[NickName |-> "server"], [NickName |-> "A"], [NickName |-> "B"]>>
\* a NickName that is no str stands as one of these
NonStrNames == {"<int 7>"}
\* the answers to GetPlayerList the player list is checked over: empty, the
\* header alone, headers with and without a NickName, players in two orders, a
\* player without NickName and one whose NickName is no str
RawPlayerLists ==
    { << >>,
      <<[NickName |-> "server"]>>,
      <<[NickName |-> "server"], [NickName |-> "A"]>>,
      RawPlayers,
      <<[NickName |-> "server"], [NickName |-> "B"], [NickName |-> "A"]>>,
      <<[Login |-> "server"], [NickName |-> "A"], [NickName |-> "B"]>>,
      <<[NickName |-> "server"], [NickName |-> "A"], [Login |-> "b"]>>,
      <<[NickName |-> "server"], [NickName |-> "<int 7>"], [NickName |-> "A"]>> }
MapLists == {<<"u1", "u2">>, <<"u1", "u2", "u3", "u4", "u5">>}
\* the lengths of the map lists get_map_list is paged over: none, less than a
\* page, one page, two pages, and three pages and a rest
PageLengths == {0, 3, 5, 10, 18}
PagedLists == {SubSeq(UIdSeq, 1, n) : n \in PageLengths}

MapChunks == 5                    \* get_map_list(map_chunks=5)
RecordChunk == 20                 \* get_records: maps[i : i + 20]

FullMedals == [Author |-> 45, Gold |-> 50, Silver |-> 55, Bronze |-> 60]
PartialMedals == [Gold |-> 50, Silver |-> 55, Bronze |-> 60]

\* Results[0] of the catalog's answer for a UId
CatalogEntry(id, oid, medals) == [MapId |-> id, OnlineMapId |-> oid, Medals |-> medals]

BaseCatalog ==
    [u \in UIDs |->
        LET k == CHOOSE j \in DOMAIN UIdSeq : UIdSeq[j] = u
        IN  CatalogEntry(k, OnlineIds[k], FullMedals)]

\* The catalogs the cache is checked against: the well-formed one, one whose
\* answer for u1 lacks Medals.Author, and one that gives u1 and u2 one MapId.
Catalogs ==
    { BaseCatalog,
      [BaseCatalog EXCEPT !["u1"] = CatalogEntry(1, "o1", PartialMedals)],
      [BaseCatalog EXCEPT !["u2"] = CatalogEntry(1, "o2", FullMedals)] }

(***************************************************************************)
(* Values                                                                  *)
(***************************************************************************)
NoVal == [none |-> TRUE]
NoState == [none |-> TRUE]
EmptyCache == [u \in {} |-> NoVal]

L(f, s) == [f |-> f, s |-> s]
Idle == L("idle", "")
Unstarted == L("unstarted", "")
Dead == L("dead", "")

NoLoc == [uid |-> "", arg |-> 0, cmi |-> 0, tl |-> 0, name |-> "", maxp |-> 0,
          maps |-> << >>, out |-> << >>, more |-> FALSE, offset |-> 0, i |-> 0,
          seen |-> -1, reqs |-> << >>,
          chunked_maps |-> << >>, dict_of_maps |-> << >>, records |-> << >>,
          sent |-> << >>]

\* every field of state comes from pull k
Stamped(k) == [maps |-> k, current_map_index |-> k, time_limit |-> k, players |-> k]

NoResult == [err |-> "", msg |-> ""]
Done == [err |-> "none", msg |-> ""]

Min(a, b) == IF a < b THEN a ELSE b

\* dict.get(key, 0) on a Medals mapping
MedalGet(medals, key) == IF key \in DOMAIN medals THEN medals[key] ELSE 0

\* dict[key] = value
Put(d, k, v) == [x \in DOMAIN d \cup {k} |-> IF x = k THEN v ELSE d[x]]

(***************************************************************************)
(* The sqlite store (DBEntry, DB)                                          *)
(***************************************************************************)
\* The column create_table_sql declares PRIMARY KEY
PrimaryKey(row) == row.id

\* DBEntry(uid=..., id=..., online_id=..., author_medal=medals.get("Author", 0), ...)
DBEntry(uid, id, online_id, medals) ==
    [uid |-> uid, id |-> id, online_id |-> online_id,
     author_medal |-> MedalGet(medals, "Author"),
     gold_medal |-> MedalGet(medals, "Gold"),
     silver_medal |-> MedalGet(medals, "Silver"),
     bronze_medal |-> MedalGet(medals, "Bronze")]

\* INSERT OR REPLACE: the row that holds the new row's primary key is replaced
insert_or_replace(rows, e) ==
    {r \in rows : PrimaryKey(r) # PrimaryKey(e)} \cup {e}

\* {e.uid: (e.id, e.online_id, {...}) for e in entry}: rows come in rowid (id)
\* order, and a later row of the same uid overwrites an earlier one
get_all_entries(rows) ==
    [u \in {r.uid : r \in rows} |->
        LET rs == {r \in rows : r.uid = u}
            e  == CHOOSE r \in rs : \A q \in rs : q.id <= r.id
        IN  <<e.id, e.online_id,
              [Author |-> e.author_medal, Gold |-> e.gold_medal,
               Silver |-> e.silver_medal, Bronze |-> e.bronze_medal]>>]

\* The stores a run can start from: a new file, or the file an earlier run left
\* after it resolved u1
StoredBefore(cat) ==
    { {}, {DBEntry("u1", cat["u1"].MapId, cat["u1"].OnlineMapId, cat["u1"].Medals)} }

(***************************************************************************)
(* Control: calls, returns and exceptions of a thread                      *)
(***************************************************************************)
Ctl(t, npc, nstk, nloc, nrv, nres) ==
    /\ pc' = [pc EXCEPT ![t] = npc]
    /\ stk' = [stk EXCEPT ![t] = nstk]
    /\ loc' = [loc EXCEPT ![t] = nloc]
    /\ rv' = [rv EXCEPT ![t] = nrv]
    /\ result' = [result EXCEPT ![t] = nres]

Goto(t, lbl, nloc) == Ctl(t, lbl, stk[t], nloc, NoVal, result[t])

\* call `callee`, to come back at label `ret`
CallF(t, callee, ret, nloc) ==
    Ctl(t, callee, <<ret>> \o stk[t], nloc, NoVal, result[t])

\* the operation a thread is in: the function at the bottom of its stack
TopOp(t) == IF stk[t] = << >> THEN pc[t].f ELSE stk[t][Len(stk[t])].f

InFrame(t, f) == pc[t].f = f \/ \E k \in 1..Len(stk[t]) : stk[t][k].f = f

\* return v from the function the thread is in
Return(t, v, nloc) ==
    IF stk[t] = << >>
    THEN Ctl(t, Idle, << >>, nloc, v, Done)
    ELSE Ctl(t, Head(stk[t]), Tail(stk[t]), nloc, v, result[t])

\* set_mode_script_settings turns a Fault raised inside its try block into
\* RuntimeError; no other function catches anything
Propagated(t, err) ==
    IF err = "Fault" /\ InFrame(t, "set_mode_script_settings")
    THEN "RuntimeError" ELSE err

\* an exception leaves every function of the thread; the background thread has
\* no handler (the try/except of _periodic_update is commented out), so it ends
Raise(t, err, msg) ==
    Ctl(t, IF t = BG THEN Dead ELSE Idle, << >>, NoLoc, NoVal,
        [err |-> Propagated(t, err), msg |-> msg])

\* the outcomes of remote.call(): a value, a Fault, or a value of another shape;
\* the call surface is connection-gated, a call without connection fails
CallOutcomes == IF connalive THEN {"ok", "fault", "bad"} ELSE {"fault"}

(***************************************************************************)
(* MapMetadataCache: ServerController.get_tmx_ids                          *)
(***************************************************************************)
\* (id, online_map_id, medals) of a catalog answer
TmxTuple(e) == <<e.MapId, e.OnlineMapId, e.Medals>>

\* sqlite3.connect() is called with its default check_same_thread: only the
\* thread that made the connection, the one running _periodic_update, may use it
DbUsable(t) == t = BG

\* if map_uid in self._uid_to_id_cache: return self._uid_to_id_cache[map_uid]
get_tmx_ids_check(t) ==
    /\ pc[t] = L("get_tmx_ids", "check")
    /\ IF loc[t].uid \in DOMAIN cache
       THEN Return(t, cache[loc[t].uid], [loc[t] EXCEPT !.uid = ""])
       ELSE Goto(t, L("get_tmx_ids", "get"), loc[t])
    /\ UNCHANGED <<connalive, remote, rMaps, catalog, state, cache, dbOpen, db,
                   event, started, lookups,
                   signals, stamp>>

\* what the cache keeps for an answer
CacheValue(e) == TmxTuple(e)

\* a request for uid was sent, `ok` (0 or 1) of them answered with a result
Counted(uid, ok) == [lookups EXCEPT ![uid] = Min(@ + ok, MaxLookups)]

\* response = get(...); status check; Results[0]; self._uid_to_id_cache[map_uid] = ...
get_tmx_ids_get(t) ==
    /\ pc[t] = L("get_tmx_ids", "get")
    /\ \E response \in {"non200", "empty", "ok"} :
         CASE response = "non200" ->
                /\ Raise(t, "RuntimeError", "Failed to retrieve TMX info")
                /\ cache' = cache
                /\ lookups' = Counted(loc[t].uid, 0)
           [] response = "empty" ->
                /\ Raise(t, "IndexError", "")
                /\ cache' = cache
                /\ lookups' = Counted(loc[t].uid, 0)
           [] OTHER ->
                /\ lookups' = Counted(loc[t].uid, 1)
                /\ cache' = Put(cache, loc[t].uid, CacheValue(catalog[loc[t].uid]))
                /\ Goto(t, L("get_tmx_ids", "db"), loc[t])
    /\ UNCHANGED <<connalive, remote, rMaps, catalog, state, dbOpen, db, event,
                   started,
                   signals, stamp>>

\* self._db.db_add_entry(DBEntry(...)); return id, online_map_id, medals
get_tmx_ids_db(t) ==
    /\ pc[t] = L("get_tmx_ids", "db")
    /\ LET e == catalog[loc[t].uid] IN
         IF ~dbOpen
         THEN Raise(t, "AttributeError", "") /\ db' = db
         ELSE IF ~DbUsable(t)
         THEN Raise(t, "ProgrammingError", "") /\ db' = db
         ELSE /\ db' = insert_or_replace(db,
                          DBEntry(loc[t].uid, e.MapId, e.OnlineMapId, e.Medals))
              /\ Return(t, TmxTuple(e), [loc[t] EXCEPT !.uid = ""])
    /\ UNCHANGED <<connalive, remote, rMaps, catalog, state, cache, dbOpen, event,
                   started, lookups,
                   signals, stamp>>

(***************************************************************************)
(* The background thread: _periodic_update and update_state                *)
(***************************************************************************)
\* self._db = DB(path); self._uid_to_id_cache = self._db.get_all_entries()
periodic_update_hydrate(t) ==
    /\ t = BG /\ started /\ pc[t] = Unstarted
    /\ dbOpen' = TRUE
    /\ cache' = get_all_entries(db)
    /\ Goto(t, L("update_state", "update_map_list"), loc[t])
    /\ UNCHANGED <<connalive, remote, rMaps, catalog, state, db, event, started,
                   lookups,
                   signals, stamp>>

\* the pull that a write of the pass under way is stamped with
PassId == 1

\* update_map_list: if self.state: ... = self.get_map_list().  A pass begins
\* here; loc.seen keeps the server's max players of that moment
update_map_list(t) ==
    /\ pc[t] = L("update_state", "update_map_list")
    /\ IF state # NoState
       THEN CallF(t, L("get_map_list", "guard"), L("update_state", "set_maps"),
                  [loc[t] EXCEPT !.seen = remote.max])
       ELSE Goto(t, L("_periodic_update", "wait"), loc[t])
    /\ signals' = 0
    /\ UNCHANGED <<connalive, remote, rMaps, catalog, state, cache, dbOpen, db,
                   event, started, lookups, stamp>>

\* self.state.maps = <returned>; update_current_map_index: ... = self.get_current_map_index()
update_current_map_index(t) ==
    /\ pc[t] = L("update_state", "set_maps")
    /\ state' = [state EXCEPT !.maps = rv[t]]
    /\ stamp' = [stamp EXCEPT !.maps = PassId]
    /\ CallF(t, L("get_current_map_index", "guard"), L("update_state", "set_index"),
             [loc[t] EXCEPT !.reqs = << >>])
    /\ UNCHANGED <<connalive, remote, rMaps, catalog, cache, dbOpen, db, event,
                   started, lookups, signals>>

\* self.state.current_map_index = <returned>; update_mode_script_settings
update_mode_script_settings(t) ==
    /\ pc[t] = L("update_state", "set_index")
    /\ state' = [state EXCEPT !.current_map_index = rv[t]]
    /\ stamp' = [stamp EXCEPT !.current_map_index = PassId]
    /\ CallF(t, L("get_mode_script_settings", "guard"), L("update_state", "set_settings"), loc[t])
    /\ UNCHANGED <<connalive, remote, rMaps, catalog, cache, dbOpen, db, event,
                   started, lookups, signals>>

\* ModeScriptSettings.update_from_dict
update_from_dict(time_limit, settings) ==
    IF "S_TimeLimit" \in DOMAIN settings THEN settings.S_TimeLimit ELSE time_limit

\* self.state.modescript_settings.update_from_dict(settings); update_player_list
update_player_list(t) ==
    /\ pc[t] = L("update_state", "set_settings")
    /\ state' = [state EXCEPT !.time_limit = update_from_dict(@, rv[t])]
    /\ stamp' = [stamp EXCEPT !.time_limit = PassId]
    /\ CallF(t, L("get_player_list", "guard"), L("update_state", "set_players"), loc[t])
    /\ UNCHANGED <<connalive, remote, rMaps, catalog, cache, dbOpen, db, event,
                   started, lookups, signals>>

\* self.state.players = <returned>: the pass is over, no pass is under way
update_state_end(t) ==
    /\ pc[t] = L("update_state", "set_players")
    /\ state' = [state EXCEPT !.players = rv[t]]
    /\ stamp' = Stamped(0)
    /\ Goto(t, L("_periodic_update", "wait"), [loc[t] EXCEPT !.seen = -1])
    /\ UNCHANGED <<connalive, remote, rMaps, catalog, cache, dbOpen, db, event,
                   started, lookups, signals>>

\* self.update_event.wait(timeout=60): returns once the event is set or the
\* timeout has passed
periodic_update_wait(t) ==
    /\ pc[t] = L("_periodic_update", "wait")
    /\ Goto(t, L("_periodic_update", "clear"), loc[t])
    /\ UNCHANGED <<connalive, remote, rMaps, catalog, state, cache, dbOpen, db,
                   event, started, lookups,
                   signals, stamp>>

\* an event that queues its set() calls: clear() takes one of them off
periodic_update_clear_queued(t) ==
    /\ pc[t] = L("_periodic_update", "clear")
    /\ event' = (signals >= 2)
    /\ Goto(t, L("update_state", "update_map_list"), loc[t])
    /\ UNCHANGED <<connalive, remote, rMaps, catalog, state, cache, dbOpen, db,
                   started, lookups, signals, stamp>>

\* self.update_event.clear(); while True: self.update_state()
periodic_update_clear(t) ==
    /\ pc[t] = L("_periodic_update", "clear")
    /\ event' = FALSE
    /\ Goto(t, L("update_state", "update_map_list"), loc[t])
    /\ UNCHANGED <<connalive, remote, rMaps, catalog, state, cache, dbOpen, db,
                   started, lookups, signals, stamp>>

(***************************************************************************)
(* ConnectionGuard and the guarded remote operations                       *)
(***************************************************************************)
Guarded == {"get_server_name", "get_max_players", "set_max_players",
            "get_player_list", "get_mode_script_settings",
            "set_mode_script_settings", "get_current_map_index", "get_map_list",
            "set_current_map_index"}

\* a guard that lets every call through
GuardPassesAlways == TRUE

\* wrapper: if not self.remote.connalive: raise RuntimeError(...)
GuardPasses == connalive

\* @validate_connection, at the entry of every function of Guarded
validate_connection(t) ==
    /\ pc[t].f \in Guarded /\ pc[t].s = "guard"
    /\ IF GuardPasses
       THEN Goto(t, L(pc[t].f, "call"), loc[t])
       ELSE Raise(t, "RuntimeError", "Not connected to the dedicated server.")
    /\ UNCHANGED <<connalive, remote, rMaps, catalog, state, cache, dbOpen, db,
                   event, started, lookups,
                   signals, stamp>>

\* return check_cast(self.remote.call("GetServerName"), str)
get_server_name(t) ==
    /\ pc[t] = L("get_server_name", "call")
    /\ \E o \in CallOutcomes :
         CASE o = "ok"    -> Return(t, ServerName, loc[t])
           [] o = "fault" -> Raise(t, "Fault", "")
           [] OTHER       -> Raise(t, "TypeError", "")
    /\ UNCHANGED <<connalive, remote, rMaps, catalog, state, cache, dbOpen, db,
                   event, started, lookups,
                   signals, stamp>>

\* GetMaxPlayers: a dict with CurrentValue, or RuntimeError
get_max_players(t) ==
    /\ pc[t] = L("get_max_players", "call")
    /\ \E o \in CallOutcomes :
         CASE o = "ok"    -> Return(t, remote.max, loc[t])
           [] o = "fault" -> Raise(t, "Fault", "")
           [] OTHER       -> Raise(t, "RuntimeError", "Failed to get max players.")
    /\ UNCHANGED <<connalive, remote, rMaps, catalog, state, cache, dbOpen, db,
                   event, started, lookups,
                   signals, stamp>>

\* SetMaxPlayers; a Fault becomes RuntimeError
set_max_players(t) ==
    /\ pc[t] = L("set_max_players", "call")
    /\ \E o \in CallOutcomes \ {"bad"} :
         IF o = "ok"
         THEN /\ remote' = [remote EXCEPT !.max = loc[t].arg]
              /\ Return(t, NoVal, NoLoc)
         ELSE /\ remote' = remote
              /\ Raise(t, "RuntimeError", "Failed to set max players")
    /\ UNCHANGED <<connalive, rMaps, catalog, state, cache, dbOpen, db, event,
                   started, lookups,
                   signals, stamp>>

\* players[2:], each player's NickName
PlayerNamesFromSecond(players) ==
    [k \in 1..(IF Len(players) > 2 THEN Len(players) - 2 ELSE 0) |->
        players[k + 2].NickName]

\* players[1:], each player's NickName
PlayerNames(players) == [k \in 1..(Len(players) - 1) |-> players[k + 1].NickName]

\* what [check_cast(player["NickName"], str) for player in players] raises: the
\* error of the first player that has no NickName or one that is no str
CastError(players) ==
    LET bad == {k \in DOMAIN players :
                    \/ "NickName" \notin DOMAIN players[k]
                    \/ players[k].NickName \in NonStrNames}
        k == CHOOSE j \in bad : \A i \in bad : j <= i
    IN  IF bad = {} THEN ""
        ELSE IF "NickName" \notin DOMAIN players[k] THEN "KeyError" ELSE "TypeError"

\* GetPlayerList(100, 0): a non-empty list, or RuntimeError
get_player_list(t) ==
    /\ pc[t] = L("get_player_list", "call")
    /\ \E o \in CallOutcomes :
         CASE o = "ok"    ->
                IF Len(remote.players) = 0
                THEN Raise(t, "RuntimeError", "Failed to get player list.")
                ELSE IF CastError(Tail(remote.players)) # ""
                THEN Raise(t, CastError(Tail(remote.players)), "")
                ELSE Return(t, PlayerNames(remote.players), loc[t])
           [] o = "fault" -> Raise(t, "Fault", "")
           [] OTHER       -> Raise(t, "RuntimeError", "Failed to get player list.")
    /\ UNCHANGED <<connalive, remote, rMaps, catalog, state, cache, dbOpen, db,
                   event, started, lookups,
                   signals, stamp>>

\* return check_cast(self.remote.call("GetModeScriptSettings"), dict)
get_mode_script_settings(t) ==
    /\ pc[t] = L("get_mode_script_settings", "call")
    /\ \E o \in CallOutcomes :
         CASE o = "ok"    -> Return(t, [S_TimeLimit |-> remote.tl], loc[t])
           [] o = "fault" -> Raise(t, "Fault", "")
           [] OTHER       -> Raise(t, "TypeError", "")
    /\ UNCHANGED <<connalive, remote, rMaps, catalog, state, cache, dbOpen, db,
                   event, started, lookups,
                   signals, stamp>>

\* try: current_mode_settings = self.get_mode_script_settings()
set_mode_script_settings(t) ==
    /\ pc[t] = L("set_mode_script_settings", "call")
    /\ CallF(t, L("get_mode_script_settings", "guard"),
             L("set_mode_script_settings", "write"), loc[t])
    /\ UNCHANGED <<connalive, remote, rMaps, catalog, state, cache, dbOpen, db,
                   event, started, lookups,
                   signals, stamp>>

\* current_mode_settings |= settings_dict; SetModeScriptSettings; the result
\* must be a bool; a Fault becomes RuntimeError
set_mode_script_settings_write(t) ==
    /\ pc[t] = L("set_mode_script_settings", "write")
    /\ \E o \in CallOutcomes \cup (IF connalive THEN {"refused"} ELSE {}) :
         CASE o = "ok" ->
                /\ remote' = [remote EXCEPT !.tl = Put(rv[t], "S_TimeLimit", loc[t].arg).S_TimeLimit]
                /\ Return(t, TRUE, NoLoc)
           [] o = "refused" ->
                /\ remote' = remote
                /\ Return(t, FALSE, NoLoc)
           [] o = "fault" ->
                /\ remote' = remote
                /\ Raise(t, "RuntimeError", "Failed to set mode script setting")
           [] OTHER ->
                /\ remote' = remote
                /\ Raise(t, "RuntimeError", "Failed to set mode script settings.")
    /\ UNCHANGED <<connalive, rMaps, catalog, state, cache, dbOpen, db, event,
                   started, lookups,
                   signals, stamp>>

\* return check_cast(self.remote.call("GetCurrentMapIndex"), int)
get_current_map_index(t) ==
    /\ pc[t] = L("get_current_map_index", "call")
    /\ \E o \in CallOutcomes :
         CASE o = "ok"    -> Return(t, remote.cur, loc[t])
           [] o = "fault" -> Raise(t, "Fault", "")
           [] OTHER       -> Raise(t, "TypeError", "")
    /\ UNCHANGED <<connalive, remote, rMaps, catalog, state, cache, dbOpen, db,
                   event, started, lookups,
                   signals, stamp>>

\* a set_current_map_index that writes the index into the published state too
set_current_map_index_publishing(t) ==
    /\ pc[t] = L("set_current_map_index", "call")
    /\ \E o \in CallOutcomes \ {"bad"} :
         IF o = "ok"
         THEN /\ remote' = [remote EXCEPT !.cur = loc[t].arg]
              /\ state' = IF state = NoState THEN state
                          ELSE [state EXCEPT !.current_map_index = loc[t].arg]
              /\ Return(t, NoVal, NoLoc)
         ELSE /\ remote' = remote
              /\ state' = state
              /\ Raise(t, "RuntimeError", "Failed to set current map index")
    /\ UNCHANGED <<connalive, rMaps, catalog, cache, dbOpen, db, event,
                   started, lookups, signals, stamp>>

\* JumpToMapIndex; a Fault becomes RuntimeError
set_current_map_index(t) ==
    /\ pc[t] = L("set_current_map_index", "call")
    /\ \E o \in CallOutcomes \ {"bad"} :
         IF o = "ok"
         THEN /\ remote' = [remote EXCEPT !.cur = loc[t].arg]
              /\ Return(t, NoVal, NoLoc)
         ELSE /\ remote' = remote
              /\ Raise(t, "RuntimeError", "Failed to set current map index")
    /\ UNCHANGED <<connalive, rMaps, catalog, state, cache, dbOpen, db, event,
                   started, lookups,
                   signals, stamp>>

(***************************************************************************)
(* get_map_list                                                            *)
(***************************************************************************)
\* GetMapList(count, offset) on the dedicated server
Page(list, count, offset) == SubSeq(list, offset + 1, Min(offset + count, Len(list)))

\* a GetMapList request as loc.reqs keeps it: the offset asked for, and the
\* length of the list that came back (-1 when it was no list)
Asked(offset, got) == [offset |-> offset, got |-> got]

\* a first request that goes on only after a page longer than map_chunks
get_map_list_first_strict(t) ==
    /\ pc[t] = L("get_map_list", "call")
    /\ \E o \in CallOutcomes :
         CASE o = "ok" ->
                LET new_maps == Page(rMaps, MapChunks, 0)
                    more == Len(new_maps) > MapChunks
                IN  Goto(t, L("get_map_list", IF more THEN "loop" ELSE "resolve"),
                         [loc[t] EXCEPT !.maps = new_maps, !.more = more,
                                        !.offset = MapChunks,
                                        !.reqs = <<Asked(0, Len(new_maps))>>])
           [] o = "fault" -> Raise(t, "Fault", "")
           [] OTHER       -> Return(t, << >>,
                                    [loc[t] EXCEPT !.reqs = <<Asked(0, -1)>>])
    /\ UNCHANGED <<connalive, remote, rMaps, catalog, state, cache, dbOpen, db,
                   event, started, lookups, signals, stamp>>

\* offset = 0; new_maps = GetMapList(map_chunks, offset); not a list: return []
get_map_list_first(t) ==
    /\ pc[t] = L("get_map_list", "call")
    /\ \E o \in CallOutcomes :
         CASE o = "ok" ->
                LET new_maps == Page(rMaps, MapChunks, 0)
                    more == Len(new_maps) >= MapChunks
                IN  Goto(t, L("get_map_list", IF more THEN "loop" ELSE "resolve"),
                         [loc[t] EXCEPT !.maps = new_maps, !.more = more,
                                        !.offset = MapChunks,
                                        !.reqs = <<Asked(0, Len(new_maps))>>])
           [] o = "fault" -> Raise(t, "Fault", "")
           [] OTHER       -> Return(t, << >>,
                                    [loc[t] EXCEPT !.reqs = <<Asked(0, -1)>>])
    /\ UNCHANGED <<connalive, remote, rMaps, catalog, state, cache, dbOpen, db,
                   event, started, lookups,
                   signals, stamp>>

\* a loop that gives up the maps it has when a page is not a list
get_map_list_loop_discarding(t) ==
    /\ pc[t] = L("get_map_list", "loop")
    /\ \E o \in CallOutcomes :
         CASE o = "ok" ->
                LET new_maps == Page(rMaps, MapChunks, loc[t].offset)
                    more == Len(new_maps) >= MapChunks
                IN  Goto(t, L("get_map_list", IF more THEN "loop" ELSE "resolve"),
                         [loc[t] EXCEPT !.maps = @ \o new_maps, !.more = more,
                                        !.offset = @ + MapChunks,
                                        !.reqs = Append(@, Asked(loc[t].offset,
                                                                 Len(new_maps)))])
           [] o = "fault" -> Raise(t, "Fault", "")
           [] OTHER       -> Goto(t, L("get_map_list", "resolve"),
                                  [loc[t] EXCEPT !.more = FALSE, !.maps = << >>,
                                                 !.reqs = Append(@, Asked(loc[t].offset, -1))])
    /\ UNCHANGED <<connalive, remote, rMaps, catalog, state, cache, dbOpen, db,
                   event, started, lookups,
                   signals, stamp>>

\* while len(new_maps) >= map_chunks: the next page; not a list: break
get_map_list_loop(t) ==
    /\ pc[t] = L("get_map_list", "loop")
    /\ \E o \in CallOutcomes :
         CASE o = "ok" ->
                LET new_maps == Page(rMaps, MapChunks, loc[t].offset)
                    more == Len(new_maps) >= MapChunks
                IN  Goto(t, L("get_map_list", IF more THEN "loop" ELSE "resolve"),
                         [loc[t] EXCEPT !.maps = @ \o new_maps, !.more = more,
                                        !.offset = @ + MapChunks,
                                        !.reqs = Append(@, Asked(loc[t].offset,
                                                                 Len(new_maps)))])
           [] o = "fault" -> Raise(t, "Fault", "")
           [] OTHER       -> Goto(t, L("get_map_list", "resolve"),
                                  [loc[t] EXCEPT !.more = FALSE,
                                                 !.reqs = Append(@, Asked(loc[t].offset, -1))])
    /\ UNCHANGED <<connalive, remote, rMaps, catalog, state, cache, dbOpen, db,
                   event, started, lookups,
                   signals, stamp>>

\* for map_data in maps: self.get_tmx_ids(map_data["UId"]); after the last
\* one: return [Map(**map_data) for map_data in maps]
get_map_list_resolve(t) ==
    /\ pc[t] = L("get_map_list", "resolve")
    /\ IF loc[t].i < Len(loc[t].maps)
       THEN CallF(t, L("get_tmx_ids", "check"), L("get_map_list", "enrich"),
                  [loc[t] EXCEPT !.uid = loc[t].maps[loc[t].i + 1]])
       ELSE Return(t, loc[t].out,
                   [loc[t] EXCEPT !.maps = << >>, !.out = << >>, !.more = FALSE,
                                  !.offset = 0, !.i = 0])
    /\ UNCHANGED <<connalive, remote, rMaps, catalog, state, cache, dbOpen, db,
                   event, started, lookups,
                   signals, stamp>>

\* Map(**map_data) with the ID, OnlineID and Medals get_tmx_ids returned
MapOf(uid, tmx) == [UId |-> uid, ID |-> tmx[1], OnlineID |-> tmx[2], Medals |-> tmx[3]]

\* map_data["ID"], map_data["OnlineID"], map_data["Medals"] = <returned>
get_map_list_enrich(t) ==
    /\ pc[t] = L("get_map_list", "enrich")
    /\ Goto(t, L("get_map_list", "resolve"),
            [loc[t] EXCEPT !.out = Append(@, MapOf(loc[t].maps[loc[t].i + 1], rv[t])),
                           !.i = @ + 1])
    /\ UNCHANGED <<connalive, remote, rMaps, catalog, state, cache, dbOpen, db,
                   event, started, lookups,
                   signals, stamp>>

(***************************************************************************)
(* connect and disconnect                                                  *)
(***************************************************************************)
\* DedicatedRemote.connect(): whether the connection was made; an attempt that
\* fails leaves the flag as it was
RemoteConnect(connected) == connalive' = (connalive \/ connected)

\* DedicatedRemote.stop()
RemoteStop == connalive' = FALSE

\* connected = self.remote.connect(); if connected: maps = [];
\* current_map_index = self.get_current_map_index()
connect(t) ==
    /\ t \in Callers /\ pc[t] = Idle
    /\ \E connected \in BOOLEAN :
         /\ RemoteConnect(connected)
         /\ IF connected
            THEN Ctl(t, L("get_current_map_index", "guard"), <<L("connect", "got_index")>>,
                     NoLoc, NoVal, result[t])
            ELSE Ctl(t, Idle, << >>, NoLoc, FALSE, Done)
    /\ UNCHANGED <<remote, rMaps, catalog, state, cache, dbOpen, db, event,
                   started, lookups,
                   signals, stamp>>

\* mode_script_settings = ModeScriptSettings.from_dict(self.get_mode_script_settings())
connect_mode_script_settings(t) ==
    /\ pc[t] = L("connect", "got_index")
    /\ CallF(t, L("get_mode_script_settings", "guard"), L("connect", "got_settings"),
             [loc[t] EXCEPT !.cmi = rv[t]])
    /\ UNCHANGED <<connalive, remote, rMaps, catalog, state, cache, dbOpen, db,
                   event, started, lookups,
                   signals, stamp>>

\* ModeScriptSettings.from_dict: settings.get("S_TimeLimit", 0)
from_dict(settings) ==
    IF "S_TimeLimit" \in DOMAIN settings THEN settings.S_TimeLimit ELSE 0

\* server_name = self.get_server_name()
connect_server_name(t) ==
    /\ pc[t] = L("connect", "got_settings")
    /\ CallF(t, L("get_server_name", "guard"), L("connect", "got_name"),
             [loc[t] EXCEPT !.tl = from_dict(rv[t])])
    /\ UNCHANGED <<connalive, remote, rMaps, catalog, state, cache, dbOpen, db,
                   event, started, lookups,
                   signals, stamp>>

\* max_players = self.get_max_players()
connect_max_players(t) ==
    /\ pc[t] = L("connect", "got_name")
    /\ CallF(t, L("get_max_players", "guard"), L("connect", "got_max"),
             [loc[t] EXCEPT !.name = rv[t]])
    /\ UNCHANGED <<connalive, remote, rMaps, catalog, state, cache, dbOpen, db,
                   event, started, lookups,
                   signals, stamp>>

\* a connect() that publishes what it has before it pulls the player list
connect_player_list_publishing(t) ==
    /\ pc[t] = L("connect", "got_max")
    /\ state' = [server_name |-> loc[t].name, maps |-> << >>, players |-> << >>,
                 current_map_index |-> loc[t].cmi, time_limit |-> loc[t].tl,
                 max_players |-> rv[t]]
    /\ CallF(t, L("get_player_list", "guard"), L("connect", "got_players"),
             [loc[t] EXCEPT !.maxp = rv[t]])
    /\ UNCHANGED <<connalive, remote, rMaps, catalog, cache, dbOpen, db, event,
                   started, lookups,
                   signals, stamp>>

\* player_list = self.get_player_list()
connect_player_list(t) ==
    /\ pc[t] = L("connect", "got_max")
    /\ CallF(t, L("get_player_list", "guard"), L("connect", "got_players"),
             [loc[t] EXCEPT !.maxp = rv[t]])
    /\ UNCHANGED <<connalive, remote, rMaps, catalog, state, cache, dbOpen, db,
                   event, started, lookups,
                   signals, stamp>>

\* a ServerState whose max_players is given the current map index
InitialStateMixed(l, player_list) ==
    [server_name |-> l.name, maps |-> << >>, players |-> player_list,
     current_map_index |-> l.cmi, time_limit |-> l.tl, max_players |-> l.cmi]

\* ServerState(server_name=..., maps=maps, players=player_list, ...) of connect,
\* where maps = []
InitialState(l, player_list) ==
    [server_name |-> l.name, maps |-> << >>, players |-> player_list,
     current_map_index |-> l.cmi, time_limit |-> l.tl, max_players |-> l.maxp]

\* self.state = ServerState(...)
connect_publish(t) ==
    /\ pc[t] = L("connect", "got_players")
    /\ state' = InitialState(loc[t], rv[t])
    /\ stamp' = Stamped(0)
    /\ Goto(t, L("connect", "start"), NoLoc)
    /\ UNCHANGED <<connalive, remote, rMaps, catalog, cache, dbOpen, db, event,
                   started, lookups, signals>>

\* a connect() that starts a new thread each time: the loop begins again
connect_start_restarting(t) ==
    /\ pc[t] = L("connect", "start")
    /\ started' = TRUE
    /\ pc' = [pc EXCEPT ![t] = Idle, ![BG] = Unstarted]
    /\ stk' = [stk EXCEPT ![t] = << >>, ![BG] = << >>]
    /\ loc' = [loc EXCEPT ![t] = NoLoc, ![BG] = NoLoc]
    /\ rv' = [rv EXCEPT ![t] = TRUE, ![BG] = NoVal]
    /\ result' = [result EXCEPT ![t] = Done]
    /\ UNCHANGED <<connalive, remote, rMaps, catalog, state, cache, dbOpen, db,
                   event, lookups, signals, stamp>>

\* self.update_thread.start(); return connected.  Thread.start() raises
\* RuntimeError when the thread was started before
connect_start(t) ==
    /\ pc[t] = L("connect", "start")
    /\ IF started
       THEN /\ Raise(t, "RuntimeError", "threads can only be started once")
            /\ started' = started
       ELSE /\ started' = TRUE
            /\ Return(t, TRUE, NoLoc)
    /\ UNCHANGED <<connalive, remote, rMaps, catalog, state, cache, dbOpen, db,
                   event, lookups,
                   signals, stamp>>

\* self.remote.stop()
disconnect(t) ==
    /\ t \in Callers /\ pc[t] = Idle
    /\ RemoteStop
    /\ Ctl(t, Idle, << >>, NoLoc, NoVal, Done)
    /\ UNCHANGED <<remote, rMaps, catalog, state, cache, dbOpen, db, event,
                   started, lookups,
                   signals, stamp>>

(***************************************************************************)
(* What the caller threads ask for                                         *)
(***************************************************************************)
CallGetTmxIds(t) ==
    /\ t \in Callers /\ pc[t] = Idle
    /\ \E uid \in CallerUIDs :
         Goto(t, L("get_tmx_ids", "check"), [NoLoc EXCEPT !.uid = uid])
    /\ UNCHANGED <<connalive, remote, rMaps, catalog, state, cache, dbOpen, db,
                   event, started, lookups,
                   signals, stamp>>

\* Event.set(): the flag is set, whatever it was
update_event_set ==
    /\ event' = TRUE
    /\ signals' = IF pc[BG] = L("_periodic_update", "wait")
                  THEN Min(signals + 1, MaxSignals) ELSE signals

\* controller.update_event.set()
refresh(t) ==
    /\ t \in Callers /\ pc[t] = Idle
    /\ update_event_set
    /\ Ctl(t, Idle, << >>, NoLoc, NoVal, Done)
    /\ UNCHANGED <<connalive, remote, rMaps, catalog, state, cache, dbOpen, db,
                   started, lookups, stamp>>

\* jump_to_map: controller.set_current_map_index(map_index) ...
jump_to_map(t) ==
    /\ t \in Callers /\ pc[t] = Idle
    /\ \E index \in Indexes :
         Ctl(t, L("set_current_map_index", "guard"), <<L("jump_to_map", "set")>>,
             [NoLoc EXCEPT !.arg = index], NoVal, result[t])
    /\ UNCHANGED <<connalive, remote, rMaps, catalog, state, cache, dbOpen, db,
                   event, started, lookups, signals, stamp>>

\* ... controller.update_event.set(); return "Jumped to map index ..."
jump_to_map_set(t) ==
    /\ pc[t] = L("jump_to_map", "set")
    /\ update_event_set
    /\ Ctl(t, Idle, << >>, NoLoc, NoVal, Done)
    /\ UNCHANGED <<connalive, remote, rMaps, catalog, state, cache, dbOpen, db,
                   started, lookups, stamp>>

\* update_settings: int(request.form[...]) (ValueError when it is no number);
\* result = controller.set_mode_script_settings({"S_TimeLimit": timelimit})
update_settings(t) ==
    /\ t \in Callers /\ pc[t] = Idle
    /\ \E parsed \in BOOLEAN :
         IF parsed
         THEN \E timelimit \in TimeLimits :
                Ctl(t, L("set_mode_script_settings", "guard"),
                    <<L("update_settings", "result")>>,
                    [NoLoc EXCEPT !.arg = timelimit], NoVal, result[t])
         ELSE Raise(t, "ValueError", "")
    /\ UNCHANGED <<connalive, remote, rMaps, catalog, state, cache, dbOpen, db,
                   event, started, lookups, signals, stamp>>

\* if not result: raise RuntimeError("Failed to set time limit.");
\* controller.set_max_players(max_players)
update_settings_result(t) ==
    /\ pc[t] = L("update_settings", "result")
    /\ IF rv[t]
       THEN \E max_players \in MaxPlayersVals :
              Ctl(t, L("set_max_players", "guard"), <<L("update_settings", "set")>>,
                  [NoLoc EXCEPT !.arg = max_players], NoVal, result[t])
       ELSE Raise(t, "RuntimeError", "Failed to set time limit.")
    /\ UNCHANGED <<connalive, remote, rMaps, catalog, state, cache, dbOpen, db,
                   event, started, lookups, signals, stamp>>

\* controller.update_event.set(); return "OK"
update_settings_set(t) ==
    /\ pc[t] = L("update_settings", "set")
    /\ update_event_set
    /\ Ctl(t, Idle, << >>, NoLoc, NoVal, Done)
    /\ UNCHANGED <<connalive, remote, rMaps, catalog, state, cache, dbOpen, db,
                   started, lookups, stamp>>

(***************************************************************************)
(* Specifications                                                          *)
(***************************************************************************)
\* ServerController.__init__, before a run that finds the store `rows`, with a
\* server that answers GetPlayerList with `players`
InitServer(cat, maplist, rows, players) ==
    /\ connalive = FALSE
    /\ remote = [cur |-> 1, max |-> 16, tl |-> 60, players |-> players]
    /\ rMaps = maplist
    /\ catalog = cat
    /\ state = NoState
    /\ cache = EmptyCache
    /\ dbOpen = FALSE
    /\ db = rows
    /\ event = FALSE
    /\ started = FALSE
    /\ pc = [t \in Threads |-> IF t = BG THEN Unstarted ELSE Idle]
    /\ stk = [t \in Threads |-> << >>]
    /\ loc = [t \in Threads |-> NoLoc]
    /\ rv = [t \in Threads |-> NoVal]
    /\ result = [t \in Threads |-> NoResult]
    /\ lookups = [u \in UIDs |-> 0]
    /\ signals = 0
    /\ stamp = Stamped(0)

InitWith(cat, maplist, rows) == InitServer(cat, maplist, rows, RawPlayers)

Init == \E maplist \in MapLists : InitWith(BaseCatalog, maplist, {})

\* the steps of the functions connect() and the background thread run
Core(t) ==
    \/ validate_connection(t)
    \/ get_server_name(t)
    \/ get_max_players(t)
    \/ get_player_list(t)
    \/ get_mode_script_settings(t)
    \/ get_current_map_index(t)
    \/ get_map_list_first(t)
    \/ get_map_list_resolve(t)
    \/ periodic_update_hydrate(t)
    \/ update_map_list(t)
    \/ update_current_map_index(t)
    \/ update_mode_script_settings(t)
    \/ update_player_list(t)
    \/ update_state_end(t)
    \/ periodic_update_wait(t)
    \/ periodic_update_clear(t)
    \/ connect(t)
    \/ connect_mode_script_settings(t)
    \/ connect_server_name(t)
    \/ connect_max_players(t)
    \/ connect_player_list(t)
    \/ connect_publish(t)
    \/ connect_start(t)

\* the steps that resolve the maps of a non-empty map list
Resolve(t) ==
    \/ get_map_list_enrich(t)
    \/ get_tmx_ids_check(t)
    \/ get_tmx_ids_get(t)
    \/ get_tmx_ids_db(t)

\* The controller with its background thread, and a front-end that connects,
\* disconnects and asks for a refresh
Next ==
    \E t \in Threads :
        Core(t) \/ Resolve(t) \/ get_map_list_loop(t) \/ disconnect(t) \/ refresh(t)

Spec == Init /\ [][Next]_vars

\* The same over the map lists of PagedLists
InitPages == \E maplist \in PagedLists : InitWith(BaseCatalog, maplist, {})

SpecPages == InitPages /\ [][Next]_vars

\* The same over the answers to GetPlayerList of RawPlayerLists
InitPlayers ==
    \E players \in RawPlayerLists :
        InitServer(BaseCatalog, <<"u1", "u2", "u3", "u4", "u5">>, {}, players)

SpecPlayers == InitPlayers /\ [][Next]_vars

(***************************************************************************)
(* MapUserData.from_record, ServerState.current_map, NadeoAPI.get_records  *)
(* and the handler of "/" that calls it                                    *)
(***************************************************************************)
\* from_record with nested tests: a tier is tried only when the one before held
from_record_nested(record, medals) ==
    LET m1 == record < medals.Bronze
        m2 == m1 /\ record < medals.Silver
        m3 == m2 /\ record < medals.Gold
        m4 == m3 /\ record < medals.Author
    IN  [record |-> record,
         medal |-> IF m4 THEN "Author" ELSE IF m3 THEN "Gold"
                   ELSE IF m2 THEN "Silver" ELSE IF m1 THEN "Bronze" ELSE "None"]

\* from_record with less-or-equal tests
from_record_inclusive(record, medals) ==
    LET m0 == "None"
        m1 == IF record <= medals.Bronze THEN "Bronze" ELSE m0
        m2 == IF record <= medals.Silver THEN "Silver" ELSE m1
        m3 == IF record <= medals.Gold THEN "Gold" ELSE m2
        m4 == IF record <= medals.Author THEN "Author" ELSE m3
    IN  [record |-> record, medal |-> m4]

\* data = cls(record, None), and the four tests in the order of the code
from_record(record, medals) ==
    LET m0 == "None"
        m1 == IF record < medals.Bronze THEN "Bronze" ELSE m0
        m2 == IF record < medals.Silver THEN "Silver" ELSE m1
        m3 == IF record < medals.Gold THEN "Gold" ELSE m2
        m4 == IF record < medals.Author THEN "Author" ELSE m3
    IN  [record |-> record, medal |-> m4]

\* maps[i : j] of Python, for 0 <= i <= j
Slice(maps, i, j) == SubSeq(maps, i + 1, Min(j, Len(maps)))

\* range(0, n, step) as the sequence of its values
RangeFrom0(n, step) ==
    [k \in 1..Cardinality({i \in 0..(n - 1) : i % step = 0}) |-> (k - 1) * step]

\* [maps[i : i + 20] for i in range(0, len(maps), 20)], cut at floor(n/20) chunks
chunked_maps_whole(maps) ==
    [k \in 1..(Len(maps) \div RecordChunk) |->
        Slice(maps, (k - 1) * RecordChunk, (k - 1) * RecordChunk + RecordChunk)]

\* [maps[i : i + 20] for i in range(0, len(maps), 20)]
chunked_maps(maps) ==
    LET starts == RangeFrom0(Len(maps), RecordChunk)
    IN  [k \in DOMAIN starts |-> Slice(maps, starts[k], starts[k] + RecordChunk)]

\* {m.OnlineID: m for m in maps}: the last map of an OnlineID stays
dict_of_maps(maps) ==
    [o \in {maps[k].OnlineID : k \in DOMAIN maps} |->
        maps[CHOOSE k \in DOMAIN maps :
                /\ maps[k].OnlineID = o
                /\ \A j \in DOMAIN maps : maps[j].OnlineID = o => j <= k]]

\* map(lambda m: m.OnlineID, chunk)
OnlineIDsOf(chunk) == [k \in DOMAIN chunk |-> chunk[k].OnlineID]

\* records |= new
Merged(records, new) ==
    [o \in DOMAIN records \cup DOMAIN new |->
        IF o \in DOMAIN new THEN new[o] ELSE records[o]]

\* the thresholds and the raw times the records service answers with
BoundaryMedals == [Author |-> 45000, Gold |-> 50000, Silver |-> 55000, Bronze |-> 60000]
Times == {44999, 45000, 49999, 50000, 54999, 55000, 59999, 60000}

\* response.json() for a request of the maps of chunk: no record, a record of
\* its first map, or a record of each of its maps, of one raw time
Responses(chunk) ==
    {<< >>} \cup
    UNION { { [k \in 1..1 |-> [mapId |-> chunk[1].OnlineID, time |-> time]],
              [k \in DOMAIN chunk |-> [mapId |-> chunk[k].OnlineID, time |-> time]] }
            : time \in Times }

\* if not controller.state: the error page; if "token" in session: get_records
index(t) ==
    /\ t \in Callers
    /\ pc[t] = Idle
    /\ IF state = NoState
       THEN Ctl(t, Idle, << >>, NoLoc, NoVal,
                [err |-> "none", msg |-> "Error: Not connected to the server."])
       ELSE \E token \in BOOLEAN :
              IF token
              THEN Ctl(t, L("get_records", "get"), <<L("index", "records")>>,
                       [NoLoc EXCEPT !.dict_of_maps = dict_of_maps(state.maps),
                                     !.chunked_maps = chunked_maps(state.maps)],
                       NoVal, result[t])
              ELSE Ctl(t, L("index", "render"), << >>, NoLoc, << >>, result[t])
    /\ UNCHANGED <<connalive, remote, rMaps, catalog, state, cache, dbOpen, db,
                   event, started, lookups, signals, stamp>>

\* for chunk in chunked_maps: session.get(...); response.raise_for_status();
\* records |= {...}; after the last chunk: return records
get_records_get(t) ==
    /\ pc[t] = L("get_records", "get")
    /\ IF loc[t].i < Len(loc[t].chunked_maps)
       THEN LET chunk == loc[t].chunked_maps[loc[t].i + 1]
                sent == Append(loc[t].sent, OnlineIDsOf(chunk))
            IN  \E ok \in BOOLEAN :
                  IF ok
                  THEN \E json \in Responses(chunk) :
                         LET new == [o \in {json[k].mapId : k \in DOMAIN json} |->
                                        LET r == CHOOSE k \in DOMAIN json :
                                                    json[k].mapId = o
                                        IN  from_record(json[r].time,
                                                        loc[t].dict_of_maps[o].Medals)]
                         IN  Goto(t, L("get_records", "get"),
                                  [loc[t] EXCEPT !.sent = sent, !.i = @ + 1,
                                                 !.records = Merged(@, new)])
                  ELSE Raise(t, "HTTPError", "")
       ELSE Return(t, loc[t].records,
                   [NoLoc EXCEPT !.sent = loc[t].sent, !.records = loc[t].records])
    /\ UNCHANGED <<connalive, remote, rMaps, catalog, state, cache, dbOpen, db,
                   event, started, lookups, signals, stamp>>

\* records = nadeo_api.get_records(session["token"], controller.state.maps)
index_records(t) ==
    /\ pc[t] = L("index", "records")
    /\ Ctl(t, L("index", "render"), << >>, NoLoc, rv[t], result[t])
    /\ UNCHANGED <<connalive, remote, rMaps, catalog, state, cache, dbOpen, db,
                   event, started, lookups, signals, stamp>>

\* return render_template("index.html", state=controller.state, records=records)
index_render(t) ==
    /\ pc[t] = L("index", "render")
    /\ Ctl(t, Idle, << >>, NoLoc, NoVal, Done)
    /\ UNCHANGED <<connalive, remote, rMaps, catalog, state, cache, dbOpen, db,
                   event, started, lookups, signals, stamp>>

\* a current_map that takes index -1 as Python's maps[-1]
current_map_wrapping(t) ==
    /\ t \in Callers
    /\ pc[t] = Idle
    /\ state # NoState
    /\ LET n == Len(state.maps)
           idx == state.current_map_index
       IN  Ctl(t, L("current_map", "return"), << >>, NoLoc,
               IF -1 <= idx /\ idx < n /\ n > 0
               THEN state.maps[IF idx < 0 THEN n + idx + 1 ELSE idx + 1]
               ELSE NoVal,
               result[t])
    /\ UNCHANGED <<connalive, remote, rMaps, catalog, state, cache, dbOpen, db,
                   event, started, lookups, signals, stamp>>

\* ServerState.current_map, read of a published state:
\* if 0 <= self.current_map_index < len(self.maps): return self.maps[...]
\* return None
current_map(t) ==
    /\ t \in Callers
    /\ pc[t] = Idle
    /\ state # NoState
    /\ LET idx == state.current_map_index
       IN  Ctl(t, L("current_map", "return"), << >>, NoLoc,
               IF 0 <= idx /\ idx < Len(state.maps)
               THEN state.maps[idx + 1] ELSE NoVal,
               result[t])
    /\ UNCHANGED <<connalive, remote, rMaps, catalog, state, cache, dbOpen, db,
                   event, started, lookups, signals, stamp>>

\* the reader has the value of the property
current_map_return(t) ==
    /\ pc[t] = L("current_map", "return")
    /\ Ctl(t, Idle, << >>, NoLoc, NoVal, Done)
    /\ UNCHANGED <<connalive, remote, rMaps, catalog, state, cache, dbOpen, db,
                   event, started, lookups, signals, stamp>>

\* The published states the readers are checked over: none, and those of 0, 1,
\* 19, 20, 21, 40 and 41 maps with a current_map_index below, in and above the
\* range of the list
RecordLengths == {0, 1, 19, 20, 21, 40, 41}
IndexesOf(n) == {-2, -1, 0, n - 1, n, n + 1}

PublishedState(n, idx) ==
    [maps |-> [k \in 1..n |-> MapOf(UIdSeq[k], <<k, OnlineIds[k], BoundaryMedals>>)],
     current_map_index |-> idx, time_limit |-> 60, players |-> << >>,
     server_name |-> "srv", max_players |-> 16]

InitRecords ==
    /\ connalive = FALSE
    /\ remote = [cur |-> 1, max |-> 16, tl |-> 60, players |-> RawPlayers]
    /\ rMaps = << >>
    /\ catalog = BaseCatalog
    /\ \E n \in RecordLengths : \E idx \in IndexesOf(n) :
         state \in {NoState, PublishedState(n, idx)}
    /\ cache = EmptyCache
    /\ dbOpen = FALSE
    /\ db = {}
    /\ event = FALSE
    /\ started = FALSE
    /\ pc = [t \in Threads |-> IF t = BG THEN Unstarted ELSE Idle]
    /\ stk = [t \in Threads |-> << >>]
    /\ loc = [t \in Threads |-> NoLoc]
    /\ rv = [t \in Threads |-> NoVal]
    /\ result = [t \in Threads |-> NoResult]
    /\ lookups = [u \in UIDs |-> 0]
    /\ signals = 0
    /\ stamp = Stamped(0)

NextRecords ==
    \E t \in Callers :
        \/ index(t) \/ get_records_get(t) \/ index_records(t) \/ index_render(t)
        \/ current_map(t) \/ current_map_return(t)

SpecRecords == InitRecords /\ [][NextRecords]_vars

\* The same readers over a published state of one map, whose four thresholds
\* are any of the values of BoundaryMedals, ordered or not
Thresholds == {45000, 50000, 55000, 60000}
MedalSets == [{"Author", "Gold", "Silver", "Bronze"} -> Thresholds]

InitMedals ==
    /\ connalive = FALSE
    /\ remote = [cur |-> 1, max |-> 16, tl |-> 60, players |-> RawPlayers]
    /\ rMaps = << >>
    /\ catalog = BaseCatalog
    /\ \E medals \in MedalSets :
         state = [maps |-> <<MapOf("u1", <<1, "o1", medals>>)>>,
                  current_map_index |-> 0, time_limit |-> 60, players |-> << >>,
                  server_name |-> "srv", max_players |-> 16]
    /\ cache = EmptyCache
    /\ dbOpen = FALSE
    /\ db = {}
    /\ event = FALSE
    /\ started = FALSE
    /\ pc = [t \in Threads |-> IF t = BG THEN Unstarted ELSE Idle]
    /\ stk = [t \in Threads |-> << >>]
    /\ loc = [t \in Threads |-> NoLoc]
    /\ rv = [t \in Threads |-> NoVal]
    /\ result = [t \in Threads |-> NoResult]
    /\ lookups = [u \in UIDs |-> 0]
    /\ signals = 0
    /\ stamp = Stamped(0)

SpecMedals == InitMedals /\ [][NextRecords]_vars

\* The metadata cache: callers resolve UIds while the background thread does,
\* against each catalog and each store; the server has two maps (one page)
InitCache ==
    \E cat \in Catalogs : \E rows \in StoredBefore(cat) :
        InitWith(cat, <<"u1", "u2">>, rows)

NextCache == \E t \in Threads : Core(t) \/ Resolve(t) \/ CallGetTmxIds(t)

SpecCache == InitCache /\ [][NextCache]_vars

\* The same, with the background thread the only one that resolves UIds (as
\* in the application, where only update_map_list reaches get_tmx_ids)
NextStore == \E t \in Threads : Core(t) \/ Resolve(t)

SpecStore == InitCache /\ [][NextStore]_vars

\* The guarded operations: the front-end also changes the server's settings;
\* the server has no maps
InitOps == InitWith(BaseCatalog, << >>, {})

NextOps ==
    \E t \in Threads :
        \/ Core(t)
        \/ disconnect(t)
        \/ set_max_players(t)
        \/ set_mode_script_settings(t)
        \/ set_mode_script_settings_write(t)
        \/ set_current_map_index(t)
        \/ jump_to_map(t)
        \/ jump_to_map_set(t)
        \/ update_settings(t)
        \/ update_settings_result(t)
        \/ update_settings_set(t)

SpecOps == InitOps /\ [][NextOps]_vars

(***************************************************************************)
(* Properties                                                              *)
(***************************************************************************)
\* thread t takes a step
Steps(t) == <<pc[t], stk[t], loc[t]>> # <<pc'[t], stk'[t], loc'[t]>>

\* thread t returns from get_tmx_ids with a value (to get_map_list, or to the
\* caller thread that asked)
TmxReturns(t) ==
    /\ pc[t].f = "get_tmx_ids"
    /\ \/ pc'[t] = L("get_map_list", "enrich")
       \/ pc'[t] = Idle /\ result'[t] = Done

\* C1: for every UId at most one GET request is ever sent to the catalog, over
\* all calls of get_tmx_ids from all threads. Counted are the requests the
\* catalog answered with a result, which are among the requests sent: a request
\* repeated after a failed one is left out, two threads missing at once are not.
C1_AtMostOneLookupPerUid == \A u \in UIDs : lookups[u] <= 1

\* C2: when get_tmx_ids(uid) returns a tuple, a cache filled by
\* get_all_entries from the store holds that same tuple for uid (so a fresh
\* cache answers without a request), also when the answer lacks some medal.
C2_StoreRoundTrip ==
    [][\A t \in Threads :
         TmxReturns(t) =>
            /\ loc[t].uid \in DOMAIN get_all_entries(db')
            /\ get_all_entries(db')[loc[t].uid] = rv'[t]]_vars

\* C3: an entry of the in-memory mapping is never changed or removed by a
\* later step (a resolve, the hydrate at thread start, a pass).
C3_WriteOncePerKey ==
    [][\A u \in DOMAIN cache : u \in DOMAIN cache' /\ cache'[u] = cache[u]]_vars

\* C4: the store has at most one row per UId, and no write removes the row of
\* a UId (a write for one UId leaves the rows of the other UIds in place).
C4_StoreKeyedByUid ==
    /\ [](\A r \in db : \A q \in db : r.uid = q.uid => r = q)
    /\ [][\A r \in db : \E q \in db' : q.uid = r.uid]_vars

\* C5: every UId of the in-memory mapping has its row in the store.
C5_DurableBeforeVisible == \A u \in DOMAIN cache : \E r \in db : r.uid = u

\* C6: a get_tmx_ids request that fails, by a non-200 status or by an empty
\* result set, raises the RuntimeError "Failed to retrieve TMX info" and
\* changes neither the in-memory mapping nor the store.
C6_LookupFailureIsMetadataUnavailable ==
    [][\A t \in Threads :
         (pc[t] = L("get_tmx_ids", "get") /\ Steps(t)
            /\ pc'[t] # L("get_tmx_ids", "db")) =>
            /\ result'[t] = [err |-> "RuntimeError", msg |-> "Failed to retrieve TMX info"]
            /\ cache' = cache
            /\ db' = db]_vars

\* the steps that issue remote.call()
IssuesCall(t) ==
    /\ pc[t].f \in Guarded
    /\ pc[t].s \in {"call", "loop", "write"}
    /\ pc[t] # L("set_mode_script_settings", "call")
    /\ Steps(t)

NotConnected == [err |-> "RuntimeError", msg |-> "Not connected to the dedicated server."]

\* C7 as stated: no remote.call() is ever issued while connalive is false.
C7_NoCallWhileDisconnected == [][\A t \in Threads : IssuesCall(t) => connalive]_vars

\* C7 as amended: a guarded operation checks connalive when it is entered;
\* when the check finds it false the operation raises the "Not connected"
\* RuntimeError, and the thread leaves the operation without a remote call and
\* without a change of the server; when it finds it true the operation goes on.
C7_GuardRejectsAtEntry ==
    [][\A t \in Threads :
         (pc[t].f \in Guarded /\ pc[t].s = "guard" /\ Steps(t)) =>
            IF connalive
            THEN pc'[t] = L(pc[t].f, "call")
            ELSE /\ pc'[t] \in {Idle, Dead}
                 /\ result'[t] = NotConnected
                 /\ remote' = remote]_vars

\* C7: a guard check has found connalive false
C7_Witness == \E t \in Threads : result[t] = NotConnected

\* what the dedicated server reports, with the map list
Reported(maps) ==
    [server_name |-> ServerName, maps |-> maps, players |-> PlayerNames(remote.players),
     current_map_index |-> remote.cur, time_limit |-> remote.tl,
     max_players |-> remote.max]

UIdsOf(maps) == [k \in 1..Len(maps) |-> maps[k].UId]

InPull(t) == TopOp(t) = "connect" /\ pc[t] # L("connect", "start")

\* C9: while connect() pulls, no state is published and the thread is not
\* started; a pull step that fails ends connect() with the error and leaves
\* the state and the thread as they were.
C9_FailedConnectStaysDisconnected ==
    /\ [](\A t \in Callers :
            (InPull(t) /\ ~started
               /\ \A o \in Callers : pc[o] # L("connect", "start")) =>
            state = NoState)
    /\ [][\A t \in Callers :
            (InPull(t) /\ pc'[t] = Idle /\ stk[t] # << >>) =>
               /\ result'[t].err \in {"RuntimeError", "Fault", "TypeError"}
               /\ state' = state
               /\ started' = started
               /\ pc'[BG] = pc[BG]]_vars

\* C9: a connect() whose pull failed: connected, no state, thread not started
C9_Witness ==
    \E t \in Callers :
        /\ pc[t] = Idle /\ result[t].err = "Fault"
        /\ connalive /\ state = NoState /\ ~started

\* C10: the background thread never ends.
C10_BackgroundNeverEnds == pc[BG] # Dead

\* where a pass of update_state begins
PassStart == L("update_state", "update_map_list")

\* C11: update_event is a flag, not a queue. set() calls made while the thread
\* is in wait() raise the flag; the thread's clear() after the wake leaves the
\* flag unset however many set() calls there were, and the thread begins one
\* pass: nothing is left that would wake it for a second one.
C11_SignalsCoalesce ==
    /\ [](pc[BG] = L("_periodic_update", "wait") /\ signals > 0 => event)
    /\ [][(pc[BG] = L("_periodic_update", "clear") /\ Steps(BG)) =>
             (~event' /\ pc'[BG] = PassStart)]_vars

\* two set() calls were made during one wait(); the thread woke, cleared and is
\* at the beginning of the one pass they caused, the flag unset
C11_Witness == started /\ pc[BG] = PassStart /\ signals = 2 /\ ~event

\* C12: once the thread was started, every update_event.set() is eventually
\* followed by the beginning of a pass of update_state, wherever in its pass /
\* wait / clear cycle the thread was when the flag was raised.  A thread that
\* has ended begins no pass, so the flag is never raised for a started thread
\* that has ended.
C12_RefreshLeadsToPass ==
    [][(started /\ ~event /\ event') => pc[BG] # Dead]_vars

\* C13: whatever a reader of ServerController.state finds there, its maps,
\* current_map_index, mode settings and players were all put there by one and
\* the same pull, never some by the pass under way and the others by an earlier
\* pull.
C13_SnapshotFromOnePull ==
    state # NoState =>
        /\ stamp.current_map_index = stamp.maps
        /\ stamp.time_limit = stamp.maps
        /\ stamp.players = stamp.maps

\* a pass of update_state ends
PassEnds ==
    /\ pc[BG] = L("update_state", "set_players")
    /\ pc'[BG] = L("_periodic_update", "wait")

\* C14: the snapshot mirrors the server once the server has stopped changing
\* and a pass has gone through; in particular for max_players: when a pass ends
\* and the server's max players are what they were when the pass began, then
\* state.max_players is that value.
C14_PassMirrorsMaxPlayers ==
    [][(PassEnds /\ loc[BG].seen = remote.max) =>
          state'.max_players = remote.max]_vars

\* every GetMapList request of the call was answered with a list
AllLists(reqs) == \A k \in DOMAIN reqs : reqs[k].got >= 0

\* the requests are those of offsets 0, p, 2p, ..., floor(n/p) * p
PagedBy(reqs, n, p) ==
    /\ Len(reqs) = (n \div p) + 1
    /\ \A k \in DOMAIN reqs : reqs[k].offset = (k - 1) * p

\* C15: get_map_list over a server list of n maps, with page size p = map_chunks,
\* asks for exactly floor(n/p) + 1 pages, at offsets 0, p, 2p, ..., and has and
\* returns all n maps in server order (when every request is answered with a
\* list).
C15_Pagination ==
    /\ \A t \in Threads :
          (pc[t] = L("get_map_list", "resolve") /\ AllLists(loc[t].reqs)) =>
             /\ loc[t].maps = rMaps
             /\ PagedBy(loc[t].reqs, Len(rMaps), MapChunks)
    /\ (pc[BG] = L("update_state", "set_maps") /\ AllLists(loc[BG].reqs)) =>
             /\ UIdsOf(rv[BG]) = rMaps
             /\ PagedBy(loc[BG].reqs, Len(rMaps), MapChunks)

\* get_map_list has returned 18 maps, got by 4 requests
C15_Witness ==
    /\ pc[BG] = L("update_state", "set_maps")
    /\ Len(rv[BG]) = 18
    /\ Len(loc[BG].reqs) = 4
    /\ AllLists(loc[BG].reqs)

\* the tier of a raw time under BoundaryMedals, each tier's threshold exclusive
StrictTier(time) ==
    CASE time < 45000 -> "Author"
      [] time < 50000 -> "Gold"
      [] time < 55000 -> "Silver"
      [] time < 60000 -> "Bronze"
      [] OTHER        -> "None"

\* C16: with thresholds {Bronze: 60000, Silver: 55000, Gold: 50000,
\* Author: 45000} from_record gives a raw time the tier whose threshold it is
\* strictly below: raw time 50000 is Silver (Gold needs less than 50000) and
\* raw time 60000 has no tier.
C16_TiersAreStrict ==
    \A t \in Callers : \A o \in DOMAIN loc[t].records :
        LET r == loc[t].records[o]
        IN  /\ r.medal = StrictTier(r.record)
            /\ r.record = 50000 => r.medal = "Silver"
            /\ r.record = 60000 => r.medal = "None"

\* get_records has merged a record of raw time 50000 and one of 60000
C16_Witness ==
    \E t \in Callers : \E o1, o2 \in DOMAIN loc[t].records :
        /\ loc[t].records[o1].record = 50000
        /\ loc[t].records[o2].record = 60000

\* C16 as stated: raw time 50000 is given tier Gold, and raw time 60000 none.
C16_GoldAtItsThreshold ==
    \A t \in Callers : \A o \in DOMAIN loc[t].records :
        LET r == loc[t].records[o]
        IN  /\ r.record = 50000 => r.medal = "Gold"
            /\ r.record = 60000 => r.medal = "None"

\* C17: current_map of a published state is a map iff
\* 0 <= current_map_index < len(maps), and then it is maps[current_map_index];
\* for -1, any other negative index and an index >= len(maps) the read returns
\* None.
C17_CurrentMapDefined ==
    \A t \in Callers :
        pc[t] = L("current_map", "return") =>
            LET idx == state.current_map_index
                n == Len(state.maps)
            IN  /\ (rv[t] # NoVal) <=> (idx \in 0..(n - 1))
                /\ idx \in 0..(n - 1) => rv[t] = state.maps[idx + 1]
                /\ (idx < 0 \/ idx >= n) => rv[t] = NoVal

\* current_map was read with index -1 over a list that has maps, and is None
C17_Witness ==
    \E t \in Callers :
        /\ pc[t] = L("current_map", "return")
        /\ state.current_map_index = -1
        /\ Len(state.maps) = 41
        /\ rv[t] = NoVal

\* the OnlineIDs of maps, from position a to position b
IdsFrom(maps, a, b) == [j \in 1..(b - a + 1) |-> maps[a + j - 1].OnlineID]

\* C20: get_records over n maps issues the batches in order, batch k carrying
\* the OnlineIDs of maps 20(k-1)+1 .. min(20k, n), so at most 20 and each map
\* in exactly one batch; a call that returns has issued exactly ceil(n/20)
\* batches, none for n = 0.
C20_Batches ==
    \A t \in Callers :
        LET n == Len(state.maps)
            sent == loc[t].sent
            batches == (n + RecordChunk - 1) \div RecordChunk
        IN  /\ pc[t] \in {L("get_records", "get"), L("index", "records")} =>
                 /\ Len(sent) <= batches
                 /\ \A k \in DOMAIN sent :
                      /\ Len(sent[k]) <= 20
                      /\ sent[k] = IdsFrom(state.maps, 20 * (k - 1) + 1,
                                           Min(20 * k, n))
            /\ pc[t] = L("index", "records") =>
                 /\ Len(sent) = batches
                 /\ n = 0 => sent = << >>

\* get_records has returned over 41 maps, after 3 batches
C20_Witness ==
    \E t \in Callers :
        /\ pc[t] = L("index", "records")
        /\ Len(state.maps) = 41
        /\ Len(loc[t].sent) = 3
        /\ Len(loc[t].sent[3]) = 1

\* C18: set_mode_script_settings returns normally only when the remote
\* SetModeScriptSettings call reported success: a write that was answered with
\* false (or with no boolean) makes the call fail.
C18_ReturnsOnlyOnSuccess ==
    [][\A t \in Callers :
          (/\ pc[t] = L("set_mode_script_settings", "write")
           /\ pc'[t] = L("update_settings", "result")) => rv'[t] = TRUE]_vars

\* C19: the steps of set_current_map_index leave the published state and the
\* update event as they are and change nothing of the server but its current
\* map index; the state's current_map_index changes only when the background
\* thread's pass writes it (or a connect() publishes a new state).
C19_JumpLeavesStateAlone ==
    [][/\ \A t \in Callers :
            (pc[t].f = "set_current_map_index" /\ Steps(t)) =>
                /\ state' = state
                /\ event' = event
                /\ remote'.tl = remote.tl
                /\ remote'.max = remote.max
       /\ (/\ state # NoState
           /\ state' # NoState
           /\ state'.current_map_index # state.current_map_index) =>
                \/ pc[BG] = L("update_state", "set_index")
                \/ \E t \in Callers : pc[t] = L("connect", "got_players")]_vars

\* set_current_map_index has returned to jump_to_map: the server is at the new
\* index, the published state at the old one, and the event is not set
C19_Witness ==
    \E t \in Callers :
        /\ pc[t] = L("jump_to_map", "set")
        /\ state # NoState
        /\ remote.cur # state.current_map_index
        /\ ~event

\* where get_player_list returns to
GotPlayers == {L("connect", "got_players"), L("update_state", "set_players")}

\* C21: get_player_list over a non-empty answer returns the NickNames of all
\* elements but the first, in the order of the answer: [header, A, B] gives
\* [A, B] and [header] gives []; an answer whose players all have a str
\* NickName makes it return, whatever the header is.
C21_HeaderDropped ==
    /\ [](\A t \in Threads :
            pc[t] \in GotPlayers =>
                /\ remote.players # << >>
                /\ Len(rv[t]) = Len(remote.players) - 1
                /\ \A k \in 1..Len(rv[t]) : rv[t][k] = remote.players[k + 1].NickName)
    /\ [][\A t \in Threads :
            (/\ pc[t] = L("get_player_list", "call")
             /\ Steps(t)
             /\ remote.players # << >>
             /\ CastError(Tail(remote.players)) = "") =>
                \/ pc'[t] \in GotPlayers
                \/ result'[t].err \in {"Fault", "RuntimeError"}]_vars

\* the pass has got the player list of a server that answers [header]: []
C21_Witness ==
    /\ pc[BG] = L("update_state", "set_players")
    /\ Len(remote.players) = 1
    /\ rv[BG] = << >>

\* the maps of the first k full pages of the server's list
FirstPages(k) == SubSeq(rMaps, 1, k * MapChunks)

\* C22: get_map_list asks for no page after one that is short or no list: every
\* request but the last got a full page, so there are at most floor(n/p) + 1
\* requests over a list of n maps; a page at position k that is no list ends
\* the fetch without error, with the maps of pages 0..k-1 (none when k = 0).
C22_StopsAtShortOrMalformed ==
    \A t \in Threads :
        LET reqs == loc[t].reqs
            k == Len(reqs) - 1
        IN  /\ \A j \in 1..k : reqs[j].got >= MapChunks
            /\ Len(reqs) <= (Len(rMaps) \div MapChunks) + 1
            /\ (/\ pc[t] \in {L("get_map_list", "resolve"), L("get_map_list", "enrich")}
                /\ reqs[Len(reqs)].got = -1) =>
                   loc[t].maps = FirstPages(k)
            /\ (/\ pc[t] = L("update_state", "set_maps")
                /\ reqs[Len(reqs)].got = -1) =>
                   UIdsOf(rv[t]) = FirstPages(k)

\* the second page was no list, and get_map_list has returned the first five
\* maps
C22_Witness ==
    /\ pc[BG] = L("update_state", "set_maps")
    /\ Len(loc[BG].reqs) = 2
    /\ loc[BG].reqs[2].got = -1
    /\ Len(rv[BG]) = 5

\* the tier of the last test that holds, of record < Bronze, < Silver, < Gold,
\* < Author in this order
TierOrder == <<"Bronze", "Silver", "Gold", "Author">>

LastHolding(record, medals) ==
    LET holds == {k \in DOMAIN TierOrder : record < medals[TierOrder[k]]}
    IN  IF holds = {} THEN "None"
        ELSE TierOrder[CHOOSE k \in holds : \A j \in holds : j <= k]

\* C23: whatever the four thresholds of a map, ordered or not, the medal
\* from_record gives a raw time is the tier of the last test that holds among
\* raw < Bronze, raw < Silver, raw < Gold, raw < Author, and None when none
\* holds; the thresholds are not sorted.
C23_LastTestWins ==
    \A t \in Callers : \A o \in DOMAIN loc[t].records :
        \E k \in DOMAIN state.maps :
            /\ state.maps[k].OnlineID = o
            /\ loc[t].records[o].medal =
                   LastHolding(loc[t].records[o].record, state.maps[k].Medals)

\* a record got Gold though its raw time is not below the map's Bronze and
\* Silver thresholds
C23_Witness ==
    \E t \in Callers : \E o \in DOMAIN loc[t].records :
        /\ loc[t].records[o].medal = "Gold"
        /\ loc[t].records[o].record >= state.maps[1].Medals.Bronze
        /\ loc[t].records[o].record >= state.maps[1].Medals.Silver

\* C24: the background loop is started at most once: once started the thread is
\* never started again and its run never begins anew, and a connect() that
\* reaches update_thread.start() after the first start (while the loop runs,
\* after it ended, or after a disconnect) raises RuntimeError and leaves the
\* background thread where it is.
C24_LoopStartedOnce ==
    [][/\ started => started'
       /\ pc[BG] # Unstarted => (started /\ pc'[BG] # Unstarted)
       /\ \A t \in Callers :
            (pc[t] = L("connect", "start") /\ Steps(t) /\ started) =>
                /\ result'[t].err = "RuntimeError"
                /\ <<pc'[BG], stk'[BG], loc'[BG]>> = <<pc[BG], stk[BG], loc[BG]>>]_vars

\* a second connect() has reached update_thread.start() while the loop runs
C24_Witness ==
    \E t \in Callers :
        /\ result[t].msg = "threads can only be started once"
        /\ pc[BG] \notin {Unstarted, Dead}

====
